---- MODULE Spec2Model ----
(***************************************************************************)
(* Model of SystemToolsClient (common_tool_mcp_server/system_client.py):   *)
(* the process terminator (kill_process, kill_processes_by_name), the      *)
(* command runner (execute_command), the process inspector                 *)
(* (list_processes), the file operations (write_file, read_file,           *)
(* list_files) and the environment operations, together with the part of   *)
(* the operating system they act on: the process table, asynchronous       *)
(* signal delivery, the child process with its output pipes, the files     *)
(* and os.environ.                                                         *)
(*                                                                         *)
(* Texts are sequences of tokens (strings).  A process name is a sequence  *)
(* of one-character tokens.  execution_time is wall-clock time and is not  *)
(* modelled.                                                               *)
(***************************************************************************)
EXTENDS Integers, Sequences, FiniteSets, TLC

VARIABLES
    procs,   \* the OS process table: pid -> process
    sent,    \* signals the call in progress has delivered: set of <<pid, signal>>
    kp,      \* the kill_process call: position, arguments, locals, outcome
    kn,      \* the kill_processes_by_name call
    ex,      \* the execute_command call
    child,   \* the child process of execute_command and its pipes
    files,   \* the file system: path -> file
    wf,      \* the write_file call
    env,     \* os.environ of the server process: name -> value
    se,      \* the set_environment_variable call
    pattr,   \* what the OS lets the caller read of each process
    lp,      \* the list_processes call
    ge,      \* the get_environment_variable call
    rf,      \* the read_file call
    lf,      \* the list_files call
    lastSet, \* history: name -> the value the environment was last given
    expect   \* history: path -> the text the successful writes left, if known

vars ==
    <<procs, sent, kp, kn, ex, child, files, wf, env, se, pattr, lp, ge, rf, lf,
      lastSet, expect>>

----------------------------------------------------------------------------
(* Bounds *)

MaxPid == 2
MaxOut == 2
MaxErr == 1

----------------------------------------------------------------------------
(* The process table *)

PIDs == 1..MaxPid

\* pid arguments a caller can pass: -1 is rejected by psutil.Process
\* (ValueError), 0 and the pids of exited processes are not in the table.
PidArgs == (-1)..MaxPid

ProcNames == { <<"a">>, <<"A">>, <<"a", "b">> }

AbsentProc ==
    [alive |-> FALSE, name |-> <<"a">>, nameOk |-> TRUE, ignoresTerm |-> FALSE,
     pendingTerm |-> FALSE, pendingKill |-> FALSE]

LiveProcs ==
    [alive : {TRUE}, name : ProcNames, nameOk : BOOLEAN, ignoresTerm : BOOLEAN,
     pendingTerm : {FALSE}, pendingKill : {FALSE}]

ProcTables == [PIDs -> LiveProcs \cup {AbsentProc}]

InTable(pid) == pid \in PIDs /\ procs[pid].alive

\* What the OS answers to a signal sent to pid.  Whether the caller may
\* signal a live process is the OS's decision at the time of the attempt.
SignalOutcomes(pid) ==
    IF InTable(pid) THEN {"ok", "AccessDenied"} ELSE {"NoSuchProcess"}

\* The process table after signal sig was queued for pid.
Signalled(pid, sig) ==
    [procs EXCEPT ![pid] =
        IF sig = "SIGKILL" THEN [@ EXCEPT !.pendingKill = TRUE]
                           ELSE [@ EXCEPT !.pendingTerm = TRUE]]

\* A queued signal takes effect: SIGKILL always, SIGTERM unless the process
\* ignores it.  The process leaves the table.
OSDeliver(p) ==
    /\ procs[p].alive
    /\ procs[p].pendingKill \/ (procs[p].pendingTerm /\ ~procs[p].ignoresTerm)
    /\ procs' = [procs EXCEPT ![p] = AbsentProc]
    /\ UNCHANGED <<sent, kp, kn, ex, child, files, wf, env, se, pattr, lp, ge, rf, lf,
                   lastSet, expect>>

\* A process exits on its own, whatever signals are queued for it.
OSExit(p) ==
    /\ procs[p].alive
    /\ procs' = [procs EXCEPT ![p] = AbsentProc]
    /\ UNCHANGED <<sent, kp, kn, ex, child, files, wf, env, se, pattr, lp, ge, rf, lf,
                   lastSet, expect>>

----------------------------------------------------------------------------
(* CommandResult *)

CommandResult(command, return_code, stdout, stderr, success) ==
    [command |-> command, return_code |-> return_code, stdout |-> stdout,
     stderr |-> stderr, success |-> success]

NoResult == CommandResult(<<>>, 0, <<>>, <<>>, FALSE)

\* An outcome of a call: a returned result, or an exception that escaped.
Returned(r) == [raised |-> FALSE, result |-> r]
Raised == [raised |-> TRUE, result |-> NoResult]

----------------------------------------------------------------------------
(* kill_process(pid, force) *)

\* A variant whose command leaves the pid out.
KillCommand_NoPid(pid, force) ==
    <<"kill", IF force THEN "--force" ELSE "">>

KillCommand(pid, force) ==
    <<"kill", IF force THEN "--force" ELSE "", ToString(pid)>>

KillSuccess(pid, force, process_name, action) ==
    CommandResult(KillCommand(pid, force), 0,
                  <<"Process">> \o process_name
                      \o <<"(PID:", ToString(pid), ")", action, "successfully">>,
                  <<>>, TRUE)

KillNotFound_NoFailure(pid, force) ==
    CommandResult(KillCommand(pid, force), 0,
                  <<>>, <<"Process with PID", ToString(pid), "not found">>, TRUE)

KillNotFound(pid, force) ==
    CommandResult(KillCommand(pid, force), 1,
                  <<>>, <<"Process with PID", ToString(pid), "not found">>, FALSE)

KillAccessDenied(pid, force) ==
    CommandResult(KillCommand(pid, force), 1,
                  <<>>, <<"Access denied to kill process", ToString(pid)>>, FALSE)

KillError(pid, force, exc) ==
    CommandResult(KillCommand(pid, force), 1,
                  <<>>, <<"Error killing process", ToString(pid), ":", exc>>, FALSE)

\* A variant without the AccessDenied handler and with a generic handler that
\* lets AccessDenied through.
KillExcept_NoAccessDeniedHandler(exc, pid, force) ==
    CASE exc = "NoSuchProcess" -> Returned(KillNotFound(pid, force))
      [] exc = "AccessDenied"  -> Raised
      [] OTHER                 -> Returned(KillError(pid, force, exc))

\* The except clauses of kill_process: every exception becomes a result.
KillExcept(exc, pid, force) ==
    CASE exc = "NoSuchProcess" -> Returned(KillNotFound(pid, force))
      [] exc = "AccessDenied"  -> Returned(KillAccessDenied(pid, force))
      [] OTHER                 -> Returned(KillError(pid, force, exc))

\* The call record between calls; out is read only at pc = "done".
KpIdle ==
    [pc |-> "idle", pid |-> 0, force |-> FALSE, process_name |-> <<>>,
     action |-> "", found |-> FALSE, expired |-> FALSE, denied |-> "",
     out |-> Raised]

\* The call ends with an exception exc raised inside the try block.
KpFail(exc) ==
    kp' = [kp EXCEPT !.pc = "done", !.out = KillExcept(exc, kp.pid, kp.force),
                     !.denied = IF exc = "AccessDenied" THEN kp.pc ELSE @]

\* The call ends with the success result; expired tells whether the wait
\* for the process ran into its timeout.
KpSucceed(action, expired) ==
    kp' = [kp EXCEPT !.pc = "done", !.action = action, !.expired = expired,
                     !.out = Returned(KillSuccess(kp.pid, kp.force,
                                                  kp.process_name, action))]

KillCall(pid, force) ==
    /\ kp.pc = "idle"
    /\ kp' = [KpIdle EXCEPT !.pc = "lookup", !.pid = pid, !.force = force]
    /\ sent' = {}
    /\ UNCHANGED <<procs, kn, ex, child, files, wf, env, se, pattr, lp, ge, rf, lf,
                   lastSet, expect>>

\* proc = psutil.Process(pid)
KillLookup ==
    /\ kp.pc = "lookup"
    /\ IF kp.pid < 0 THEN KpFail("ValueError")
       ELSE IF ~InTable(kp.pid) THEN KpFail("NoSuchProcess")
       ELSE kp' = [kp EXCEPT !.pc = "name", !.found = TRUE]
    /\ UNCHANGED <<procs, sent, kn, ex, child, files, wf, env, se, pattr, lp, ge, rf, lf,
                   lastSet, expect>>

\* process_name = proc.name()
KillName ==
    /\ kp.pc = "name"
    /\ IF ~InTable(kp.pid) THEN KpFail("NoSuchProcess")
       ELSE IF ~procs[kp.pid].nameOk THEN KpFail("AccessDenied")
       ELSE kp' = [kp EXCEPT !.pc = "signal",
                             !.process_name = procs[kp.pid].name]
    /\ UNCHANGED <<procs, sent, kn, ex, child, files, wf, env, se, pattr, lp, ge, rf, lf,
                   lastSet, expect>>

\* A variant that sends the graceful signal whatever force is.
FirstSignal_AlwaysTerm(force) == "SIGTERM"

\* The signal of the first attempt: proc.kill() if force else
\* proc.terminate().
FirstSignal(force) == IF force THEN "SIGKILL" ELSE "SIGTERM"

\* proc.kill() if force else proc.terminate()
KillSignal ==
    /\ kp.pc = "signal"
    /\ \E o \in SignalOutcomes(kp.pid) :
        LET sig == FirstSignal(kp.force) IN
        IF o = "ok"
        THEN /\ procs' = Signalled(kp.pid, sig)
             /\ sent' = sent \cup {<<kp.pid, sig>>}
             /\ kp' = [kp EXCEPT !.pc = "wait",
                          !.action = IF kp.force THEN "force killed"
                                                 ELSE "terminated"]
        ELSE /\ KpFail(o)
             /\ UNCHANGED <<procs, sent>>
    /\ UNCHANGED <<kn, ex, child, files, wf, env, se, pattr, lp, ge, rf, lf,
                   lastSet, expect>>

\* proc.wait(timeout=5) returns: the process has left the table.
KillWaitReturns ==
    /\ kp.pc = "wait"
    /\ ~InTable(kp.pid)
    /\ KpSucceed(kp.action, FALSE)
    /\ UNCHANGED <<procs, sent, kn, ex, child, files, wf, env, se, pattr, lp, ge, rf, lf,
                   lastSet, expect>>

\* proc.wait(timeout=5) raises TimeoutExpired: the process is still there.
KillWaitTimeout ==
    /\ kp.pc = "wait"
    /\ InTable(kp.pid)
    /\ IF kp.force
       THEN KpSucceed(kp.action, TRUE)
       ELSE kp' = [kp EXCEPT !.pc = "escalate", !.expired = TRUE]
    /\ UNCHANGED <<procs, sent, kn, ex, child, files, wf, env, se, pattr, lp, ge, rf, lf,
                   lastSet, expect>>

\* proc.kill() in the TimeoutExpired handler, then the success result.
KillEscalate ==
    /\ kp.pc = "escalate"
    /\ \E o \in SignalOutcomes(kp.pid) :
        IF o = "ok"
        THEN /\ procs' = Signalled(kp.pid, "SIGKILL")
             /\ sent' = sent \cup {<<kp.pid, "SIGKILL">>}
             /\ KpSucceed("force killed after timeout", TRUE)
        ELSE /\ KpFail(o)
             /\ UNCHANGED <<procs, sent>>
    /\ UNCHANGED <<kn, ex, child, files, wf, env, se, pattr, lp, ge, rf, lf,
                   lastSet, expect>>

\* The caller has taken the result; the client is ready for the next call.
KillReturn ==
    /\ kp.pc = "done"
    /\ kp' = KpIdle
    /\ sent' = {}
    /\ UNCHANGED <<procs, kn, ex, child, files, wf, env, se, pattr, lp, ge, rf, lf,
                   lastSet, expect>>

----------------------------------------------------------------------------
(* Text decoding: bytes.decode('utf-8', errors='replace') *)

\* The bytes a child writes: 'A', and the two bytes of U+00E9, which are
\* valid only as the pair <<195, 169>>.
Bytes == {65, 195, 169}

Replacement == 65533

\* A code point as a text token.
Chr(cp) == ToString(cp)

IsLead2(b) == b >= 194 /\ b <= 223
IsCont(b) == b >= 128 /\ b <= 191

RECURSIVE utf8_decode_ignore(_)
utf8_decode_ignore(b) ==
    IF b = <<>> THEN <<>>
    ELSE IF b[1] < 128 THEN <<Chr(b[1])>> \o utf8_decode_ignore(Tail(b))
    ELSE IF IsLead2(b[1]) /\ Len(b) >= 2 /\ IsCont(b[2])
         THEN <<Chr((b[1] - 192) * 64 + (b[2] - 128))>>
                  \o utf8_decode_ignore(Tail(Tail(b)))
    ELSE utf8_decode_ignore(Tail(b))

\* One- and two-byte sequences are decoded; a byte that starts no valid
\* sequence becomes U+FFFD and decoding goes on with the next byte.
RECURSIVE utf8_decode(_)
utf8_decode(b) ==
    IF b = <<>> THEN <<>>
    ELSE IF b[1] < 128 THEN <<Chr(b[1])>> \o utf8_decode(Tail(b))
    ELSE IF IsLead2(b[1]) /\ Len(b) >= 2 /\ IsCont(b[2])
         THEN <<Chr((b[1] - 192) * 64 + (b[2] - 128))>>
                  \o utf8_decode(Tail(Tail(b)))
    ELSE <<Chr(Replacement)>> \o utf8_decode(Tail(b))

\* The code point a text token stands for.
Ord(t) == CHOOSE cp \in 0..Replacement : Chr(cp) = t

\* The UTF-8 encoding of a text.
RECURSIVE Utf8Bytes(_)
Utf8Bytes(text) ==
    IF text = <<>> THEN <<>>
    ELSE LET cp == Ord(text[1]) IN
         (IF cp < 128 THEN <<cp>>
          ELSE IF cp < 2048 THEN <<192 + (cp \div 64), 128 + (cp % 64)>>
          ELSE <<224 + (cp \div 4096), 128 + ((cp \div 64) % 64),
                 128 + (cp % 64)>>)
         \o Utf8Bytes(Tail(text))

\* b is the UTF-8 encoding of some text.
RECURSIVE WellFormed(_)
WellFormed(b) ==
    IF b = <<>> THEN TRUE
    ELSE IF b[1] < 128 THEN WellFormed(Tail(b))
    ELSE /\ IsLead2(b[1])
         /\ Len(b) >= 2
         /\ IsCont(b[2])
         /\ WellFormed(Tail(Tail(b)))

----------------------------------------------------------------------------
(* execute_command(command, cwd, timeout, shell) *)

\* Simple commands: the empty command, a program that can be run, a name
\* that no binary has, a file without execute permission.
Commands == {"", "prog", "missing", "noperm"}

BinaryStatus(command) ==
    CASE command = "missing" -> "missing"
      [] command = "noperm"  -> "denied"
      [] command = ""        -> "none"
      [] OTHER               -> "exec"

Timeouts == {"None", "0", "1.0"}

\* Exit statuses of a program: success, failure, 124 of its own, death by
\* signal 9.
ExitCodes == {0, 1, 124, -9}

\* Exit statuses with which a shell reports that it could not run the named
\* binary (sh: 127 not found, 126 not executable; cmd.exe: 1).
ShellFailCodes(status) == IF status = "missing" THEN {1, 127} ELSE {1, 126}

\* The exception create_subprocess_shell / create_subprocess_exec raises,
\* "" when the child was started.  The shell starts whatever the command
\* names; direct exec needs a program that can be run.
SpawnFailure(command, cwdOk, shell) ==
    IF ~shell /\ command = "" THEN "TypeError"
    ELSE IF ~cwdOk THEN "FileNotFoundError"
    ELSE IF shell THEN ""
    ELSE CASE BinaryStatus(command) = "missing" -> "FileNotFoundError"
           [] BinaryStatus(command) = "denied"  -> "PermissionError"
           [] OTHER                             -> ""

\* What runs in the child: the program ("prog"), a shell with nothing to run
\* ("noop"), or a shell that finds the binary "missing" or "denied".
ChildKind(command, shell) ==
    CASE BinaryStatus(command) = "exec" -> "prog"
      [] BinaryStatus(command) = "none" -> "noop"
      [] OTHER                          -> BinaryStatus(command)

\* "V" and "P" are usable names; os.environ rejects the empty name and a
\* name with an '=' in it.
EnvNames == {"V", "P", "", "A=B"}

EnvValues == {"x", "y"}

Unset == "<unset>"

NoEnv == [n \in EnvNames |-> Unset]

\* A variant in which the child starts with an empty environment.
ChildEnv_Empty(e) == NoEnv

\* The environment of a child: no env argument is passed, so the child
\* starts with a copy of the server's environment as it is at the spawn.
ChildEnv(e) == [n \in DOMAIN e |-> e[n]]

NoChild ==
    [state |-> "none", kind |-> "noop", rc |-> 0, out |-> <<>>, err |-> <<>>,
     desc |-> FALSE, env |-> NoEnv]

ExecCompleted_Swapped(command, returncode, stdout, stderr) ==
    CommandResult(command, IF returncode = 0 THEN 0 ELSE returncode,
                  utf8_decode(stderr), utf8_decode(stdout), returncode = 0)

ExecCompleted_ZeroCode(command, returncode, stdout, stderr) ==
    CommandResult(command, 0,
                  utf8_decode(stdout), utf8_decode(stderr), returncode = 0)

\* The result after communicate() returned: return_code is
\* "process.returncode or 0".
ExecCompleted(command, returncode, stdout, stderr) ==
    CommandResult(command, IF returncode = 0 THEN 0 ELSE returncode,
                  utf8_decode(stdout), utf8_decode(stderr), returncode = 0)

ExecTimedOut_PartialOutput(command, timeout, partial) ==
    CommandResult(command, 124, utf8_decode(partial),
                  <<"Command timed out after", timeout, "seconds">>, FALSE)

\* The result of the asyncio.TimeoutError handler; the output read so far
\* (partial) is dropped.
ExecTimedOut(command, timeout, partial) ==
    CommandResult(command, 124, <<>>,
                  <<"Command timed out after", timeout, "seconds">>, FALSE)

\* A variant whose error result carries the timeout code.
ExecError_TimeoutCode(command, exc) ==
    CommandResult(command, 124, <<>>, <<"Error executing command:", exc>>, FALSE)

ExecError_NoCode(command, exc) ==
    CommandResult(command, 0, <<>>, <<"Error executing command:", exc>>, FALSE)

\* The result of the generic handler.
ExecError(command, exc) ==
    CommandResult(command, 1, <<>>, <<"Error executing command:", exc>>, FALSE)

ExIdle ==
    [pc |-> "idle", command |-> "", cwdOk |-> TRUE, timeout |-> "None",
     shell |-> TRUE, spawned |-> FALSE, timedOut |-> FALSE,
     aliveAtExpiry |-> FALSE, out |-> Raised]

ExecCall(command, cwdOk, timeout, shell) ==
    /\ ex.pc = "idle"
    /\ ex' = [ExIdle EXCEPT !.pc = "spawn", !.command = command,
                            !.cwdOk = cwdOk, !.timeout = timeout,
                            !.shell = shell]
    /\ child' = NoChild
    /\ UNCHANGED <<procs, sent, kp, kn, files, wf, env, se, pattr, lp, ge, rf, lf,
                   lastSet, expect>>

\* create_subprocess_shell(...) if shell else create_subprocess_exec(...)
ExecSpawn ==
    /\ ex.pc = "spawn"
    /\ LET exc == SpawnFailure(ex.command, ex.cwdOk, ex.shell) IN
       IF exc # ""
       THEN /\ ex' = [ex EXCEPT !.pc = "done",
                         !.out = Returned(ExecError(ex.command, exc))]
            /\ UNCHANGED child
       ELSE /\ ex' = [ex EXCEPT !.pc = "communicate", !.spawned = TRUE]
            /\ child' = [NoChild EXCEPT !.state = "running",
                            !.kind = ChildKind(ex.command, ex.shell),
                            !.env = ChildEnv(env)]
    /\ UNCHANGED <<procs, sent, kp, kn, files, wf, env, se, pattr, lp, ge, rf, lf,
                   lastSet, expect>>

\* The pipes are written by the child and by the descendants that inherited
\* them, while the call reads them.
PipesWritable ==
    /\ ex.pc = "communicate"
    /\ child.state = "running" \/ child.desc

ChildWriteOut(b) ==
    /\ PipesWritable
    /\ child.kind = "prog"
    /\ Len(child.out) < MaxOut
    /\ child' = [child EXCEPT !.out = Append(@, b)]
    /\ UNCHANGED <<procs, sent, kp, kn, ex, files, wf, env, se, pattr, lp, ge, rf, lf,
                   lastSet, expect>>

\* A shell that cannot run the command writes its diagnostic here.
ChildWriteErr(b) ==
    /\ PipesWritable
    /\ child.kind \in {"prog", "missing", "denied"}
    /\ Len(child.err) < MaxErr
    /\ child' = [child EXCEPT !.err = Append(@, b)]
    /\ UNCHANGED <<procs, sent, kp, kn, ex, files, wf, env, se, pattr, lp, ge, rf, lf,
                   lastSet, expect>>

\* The child starts a descendant, which inherits the pipes.
ChildFork ==
    /\ child.state = "running"
    /\ child.kind = "prog"
    /\ ~child.desc
    /\ child' = [child EXCEPT !.desc = TRUE]
    /\ UNCHANGED <<procs, sent, kp, kn, ex, files, wf, env, se, pattr, lp, ge, rf, lf,
                   lastSet, expect>>

DescendantExit ==
    /\ child.desc
    /\ child' = [child EXCEPT !.desc = FALSE]
    /\ UNCHANGED <<procs, sent, kp, kn, ex, files, wf, env, se, pattr, lp, ge, rf, lf,
                   lastSet, expect>>

ChildExit(rc) ==
    /\ child.state = "running"
    /\ CASE child.kind = "prog" -> rc \in ExitCodes
         [] child.kind = "noop" -> rc = 0
         [] OTHER -> rc \in ShellFailCodes(child.kind) /\ child.err # <<>>
    /\ child' = [child EXCEPT !.state = "exited", !.rc = rc]
    /\ UNCHANGED <<procs, sent, kp, kn, ex, files, wf, env, se, pattr, lp, ge, rf, lf,
                   lastSet, expect>>

\* communicate() is complete: both pipes are at end of file and the child
\* has been waited for.
CommunicateDone == child.state = "exited" /\ ~child.desc

\* wait_for returns communicate()'s value.
ExecCommunicate ==
    /\ ex.pc = "communicate"
    /\ CommunicateDone
    /\ ex' = [ex EXCEPT !.pc = "done",
                 !.out = Returned(ExecCompleted(ex.command, child.rc,
                                                child.out, child.err))]
    /\ UNCHANGED <<procs, sent, kp, kn, child, files, wf, env, se, pattr, lp, ge, rf, lf,
                   lastSet, expect>>

\* wait_for's timeout expires before communicate() is complete: communicate()
\* is cancelled and asyncio.TimeoutError handled.  Nothing is done to the
\* child.
ExecTimeout ==
    /\ ex.pc = "communicate"
    /\ ex.timeout # "None"
    /\ ~CommunicateDone
    /\ ex' = [ex EXCEPT !.pc = "done", !.timedOut = TRUE,
                 !.aliveAtExpiry = (child.state = "running"),
                 !.out = Returned(ExecTimedOut(ex.command, ex.timeout,
                                               child.out))]
    /\ UNCHANGED <<procs, sent, kp, kn, child, files, wf, env, se, pattr, lp, ge, rf, lf,
                   lastSet, expect>>

ExecReturn ==
    /\ ex.pc = "done"
    /\ ex' = ExIdle
    /\ child' = NoChild
    /\ UNCHANGED <<procs, sent, kp, kn, files, wf, env, se, pattr, lp, ge, rf, lf,
                   lastSet, expect>>

NoProcs == [p \in PIDs |-> AbsentProc]

----------------------------------------------------------------------------
(* kill_processes_by_name(name, force) *)

LowerChar(c) == IF c = "A" THEN "a" ELSE c

\* str.lower()
Lower(name) == [i \in 1..Len(name) |-> LowerChar(name[i])]

NameArgs == { <<"a">>, <<"A">>, <<"b">> }

KillAllCommand(name, force) ==
    <<"killall", IF force THEN "--force" ELSE "">> \o name

PidTokens(pids) == [i \in 1..Len(pids) |-> ToString(pids[i])]

KillAllResult_FoundIsSuccess(name, force, killed_pids, errors) ==
    IF killed_pids # <<>> \/ errors # <<>>
    THEN CommandResult(KillAllCommand(name, force), 0,
                       <<"Killed processes:">> \o PidTokens(killed_pids),
                       errors, TRUE)
    ELSE CommandResult(KillAllCommand(name, force), 1, <<>>,
                       <<"No processes found with name">> \o name, FALSE)

\* The result built after the loop.  errors holds one entry per failed
\* process; "\n".join(errors) is that sequence.
KillAllResult(name, force, killed_pids, errors) ==
    IF killed_pids # <<>>
    THEN CommandResult(KillAllCommand(name, force), 0,
                       <<"Killed processes:">> \o PidTokens(killed_pids),
                       errors, TRUE)
    ELSE CommandResult(KillAllCommand(name, force), 1, <<>>,
                       <<"No processes found with name">> \o name, FALSE)

\* f"PID {proc.info['pid']}: {str(e)}"
KillAllErrorLine(pid, exc) == "PID " \o ToString(pid) \o ": " \o exc

KnIdle ==
    [pc |-> "idle", name |-> <<>>, force |-> FALSE, next |-> 1,
     killed_pids |-> <<>>, errors |-> <<>>, out |-> Raised]

KillAllCall(name, force) ==
    /\ kn.pc = "idle"
    /\ kn' = [KnIdle EXCEPT !.pc = "iter", !.name = name, !.force = force]
    /\ sent' = {}
    /\ UNCHANGED <<procs, kp, ex, child, files, wf, env, se, pattr, lp, ge, rf, lf,
                   lastSet, expect>>

\* process_iter(['pid', 'name']) yields the next process, in pid order, and
\* the loop body compares its name.  A process that is gone is not yielded.
\* A name the OS does not let the caller read is None in proc.info, and
\* None.lower() raises AttributeError, which no handler of this method
\* catches.
KillAllNext ==
    /\ kn.pc = "iter"
    /\ kn.next \in PIDs
    /\ LET p == kn.next IN
       IF ~procs[p].alive
       THEN kn' = [kn EXCEPT !.next = p + 1]
       ELSE IF ~procs[p].nameOk
       THEN kn' = [kn EXCEPT !.pc = "done", !.out = Raised]
       ELSE IF Lower(procs[p].name) = Lower(kn.name)
       THEN kn' = [kn EXCEPT !.pc = "signal"]
       ELSE kn' = [kn EXCEPT !.next = p + 1]
    /\ UNCHANGED <<procs, sent, kp, ex, child, files, wf, env, se, pattr, lp, ge, rf, lf,
                   lastSet, expect>>

\* A variant that sends the kill signal whatever force is.
MatchSignal_AlwaysKill(force) == "SIGKILL"

\* The signal a matching process is sent: proc.kill() if force else
\* proc.terminate().
MatchSignal(force) == IF force THEN "SIGKILL" ELSE "SIGTERM"

\* proc.kill() if force else proc.terminate(); killed_pids.append(pid), or
\* errors.append(...) in the except clause.
KillAllSignal ==
    /\ kn.pc = "signal"
    /\ LET p == kn.next
           sig == MatchSignal(kn.force) IN
       \E o \in SignalOutcomes(p) :
        IF o = "ok"
        THEN /\ procs' = Signalled(p, sig)
             /\ sent' = sent \cup {<<p, sig>>}
             /\ kn' = [kn EXCEPT !.pc = "iter", !.next = p + 1,
                          !.killed_pids = Append(@, p)]
        ELSE /\ kn' = [kn EXCEPT !.pc = "iter", !.next = p + 1,
                          !.errors = Append(@, KillAllErrorLine(p, o))]
             /\ UNCHANGED <<procs, sent>>
    /\ UNCHANGED <<kp, ex, child, files, wf, env, se, pattr, lp, ge, rf, lf,
                   lastSet, expect>>

\* The loop is over: the result is built and returned.
KillAllFinish ==
    /\ kn.pc = "iter"
    /\ kn.next \notin PIDs
    /\ kn' = [kn EXCEPT !.pc = "done",
                 !.out = Returned(KillAllResult(kn.name, kn.force,
                                                kn.killed_pids, kn.errors))]
    /\ UNCHANGED <<procs, sent, kp, ex, child, files, wf, env, se, pattr, lp, ge, rf, lf,
                   lastSet, expect>>

KillAllReturn ==
    /\ kn.pc = "done"
    /\ kn' = KnIdle
    /\ sent' = {}
    /\ UNCHANGED <<procs, kp, ex, child, files, wf, env, se, pattr, lp, ge, rf, lf,
                   lastSet, expect>>

----------------------------------------------------------------------------
(* Outcomes of the operations that report failure by raising *)

\* Optional[T]: None, or a value.
None == <<>>

Some(x) == <<x>>

\* Python's truth value of an Optional[str]: None and the empty string are
\* both false.
Truthy(o) == o # None /\ o[1] # <<>>

Returns(value) == [raised |-> FALSE, exc |-> "", result |-> value]

Raises(exc) == [raised |-> TRUE, exc |-> exc, result |-> <<>>]

----------------------------------------------------------------------------
(* write_file(filepath, content, encoding, append) *)

MaxFileLen == 2

\* "f" lies in a directory that exists, "d/f" in one that does not.
Paths == {"f", "d/f"}

DirExists(path) == path = "f"

\* Chr(13) is a carriage return, Chr(10) a line feed.
Contents == { <<>>, <<Chr(65)>>, <<Chr(233)>>, <<Chr(13)>>, <<Chr(10)>> }

Encodings == {"utf-8", "ascii", "bogus"}

NoFile == [kind |-> "absent", data |-> <<>>]

\* What "f" can be when the server starts: absent, a file, a file the server
\* may not write.
StartFiles ==
    { NoFile, [kind |-> "file", data |-> <<>>], [kind |-> "file", data |-> <<65>>],
      [kind |-> "readonly", data |-> <<65>>] }

\* The exception open(filepath, mode, encoding=...) raises, "" when it
\* succeeds.  The file is opened (created, and truncated in mode 'w') before
\* the text layer looks the encoding up.
OpenFailure(path, encoding) ==
    IF ~DirExists(path) THEN "FileNotFoundError"
    ELSE IF files[path].kind = "readonly" THEN "PermissionError"
    ELSE IF encoding = "bogus" THEN "LookupError"
    ELSE ""

\* A variant in which mode 'w' does not truncate.
Opened_NoTruncate(path, append) ==
    IF ~DirExists(path) \/ files[path].kind = "readonly" THEN files[path]
    ELSE [kind |-> "file", data |-> files[path].data]

\* The file after open() got as far as the file itself.
Opened(path, append) ==
    IF ~DirExists(path) \/ files[path].kind = "readonly" THEN files[path]
    ELSE [kind |-> "file", data |-> IF append THEN files[path].data ELSE <<>>]

\* str.encode as the text layer applies it.
Encodable(text, encoding) ==
    encoding = "utf-8" \/ \A i \in 1..Len(text) : Ord(text[i]) < 128

WriteCommand(path, append) ==
    <<"write", IF append THEN "--append" ELSE "", path>>

WriteSuccess(path, append) ==
    CommandResult(WriteCommand(path, append), 0,
                  <<"Content", IF append THEN "appended to" ELSE "written to",
                    path, "successfully">>,
                  <<>>, TRUE)

WriteError(path, append, exc) ==
    CommandResult(WriteCommand(path, append), 1, <<>>,
                  <<"Error writing to file", path, ":", exc>>, FALSE)

\* History: the text a file is known to hold after a successful write of
\* content, None when the text before an append is not known.
Written(known, content, append) ==
    IF ~append THEN Some(content)
    ELSE IF known = None THEN None
    ELSE Some(known[1] \o content)

\* before is history: the file as the call found it.
WfIdle ==
    [pc |-> "idle", filepath |-> "f", content |-> <<>>, encoding |-> "utf-8",
     append |-> FALSE, before |-> NoFile, out |-> Raised]

WriteCall(path, content, encoding, append) ==
    /\ wf.pc = "idle"
    /\ append => Len(files[path].data) < MaxFileLen
    /\ wf' = [WfIdle EXCEPT !.pc = "open", !.filepath = path,
                            !.content = content, !.encoding = encoding,
                            !.append = append, !.before = files[path]]
    /\ UNCHANGED <<procs, sent, kp, kn, ex, child, files, env, se, pattr, lp, ge, rf, lf,
                   lastSet, expect>>

\* async with aiofiles.open(filepath, mode, encoding=encoding) as f
WriteOpen ==
    /\ wf.pc = "open"
    /\ LET exc == OpenFailure(wf.filepath, wf.encoding) IN
       /\ files' = [files EXCEPT ![wf.filepath] = Opened(wf.filepath, wf.append)]
       /\ IF exc # ""
          THEN wf' = [wf EXCEPT !.pc = "done",
                         !.out = Returned(WriteError(wf.filepath, wf.append, exc))]
          ELSE wf' = [wf EXCEPT !.pc = "write"]
       /\ expect' = IF exc # "" THEN [expect EXCEPT ![wf.filepath] = None]
                    ELSE expect
    /\ UNCHANGED <<procs, sent, kp, kn, ex, child, env, se, pattr, lp, ge, rf, lf,
                   lastSet>>

\* await f.write(content), the file is closed, the result is built.
WriteWrite ==
    /\ wf.pc = "write"
    /\ IF Encodable(wf.content, wf.encoding)
       THEN /\ files' = [files EXCEPT ![wf.filepath].data =
                                          @ \o Utf8Bytes(wf.content)]
            /\ wf' = [wf EXCEPT !.pc = "done",
                         !.out = Returned(WriteSuccess(wf.filepath, wf.append))]
            /\ expect' = [expect EXCEPT ![wf.filepath] =
                              Written(@, wf.content, wf.append)]
       ELSE /\ wf' = [wf EXCEPT !.pc = "done",
                         !.out = Returned(WriteError(wf.filepath, wf.append,
                                                     "UnicodeEncodeError"))]
            /\ expect' = [expect EXCEPT ![wf.filepath] = None]
            /\ UNCHANGED files
    /\ UNCHANGED <<procs, sent, kp, kn, ex, child, env, se, pattr, lp, ge, rf, lf,
                   lastSet>>

WriteReturn ==
    /\ wf.pc = "done"
    /\ wf' = WfIdle
    /\ UNCHANGED <<procs, sent, kp, kn, ex, child, files, env, se, pattr, lp, ge, rf, lf,
                   lastSet, expect>>

----------------------------------------------------------------------------
(* set_environment_variable(name, value) *)

EnvNameRejected(name) == name \in {"", "A=B"}

SetEnvCommand(name, value) == <<"export", name, "=", value>>

SetEnvSuccess(name, value) ==
    CommandResult(SetEnvCommand(name, value), 0,
                  <<"Environment variable", name, "set to", value>>, <<>>, TRUE)

SetEnvError(name, value, exc) ==
    CommandResult(SetEnvCommand(name, value), 1, <<>>,
                  <<"Error setting environment variable:", exc>>, FALSE)

\* A variant in which the assignment gives the value to every name.
EnvAssign_AllNames(e, name, value) == [n \in DOMAIN e |-> value]

\* os.environ[name] = value
EnvAssign(e, name, value) == [e EXCEPT ![name] = value]

SeIdle == [pc |-> "idle", name |-> "V", value |-> "x", out |-> Raised]

\* The method has no suspension point: the assignment and the result are
\* one step.
SetEnvironmentVariable(name, value) ==
    /\ se.pc = "idle"
    /\ IF EnvNameRejected(name)
       THEN /\ se' = [pc |-> "done", name |-> name, value |-> value,
                      out |-> Returned(SetEnvError(name, value, "ValueError"))]
            /\ UNCHANGED <<env, lastSet>>
       ELSE /\ env' = EnvAssign(env, name, value)
            /\ lastSet' = [lastSet EXCEPT ![name] = value]
            /\ se' = [pc |-> "done", name |-> name, value |-> value,
                      out |-> Returned(SetEnvSuccess(name, value))]
    /\ UNCHANGED <<procs, sent, kp, kn, ex, child, files, wf, pattr, lp, ge, rf, lf,
                   expect>>

SetEnvReturn ==
    /\ se.pc = "done"
    /\ se' = SeIdle
    /\ UNCHANGED <<procs, sent, kp, kn, ex, child, files, wf, env, pattr, lp, ge, rf, lf,
                   lastSet, expect>>

----------------------------------------------------------------------------
(* get_environment_variable(name) *)

\* A variant that finds no name.
EnvGet_AlwaysNone(e, name) == None

\* os.environ.get(name)
EnvGet(e, name) == IF e[name] = Unset THEN None ELSE Some(e[name])

GeIdle == [pc |-> "idle", name |-> "V", out |-> Raises("")]

\* The method has no suspension point.
GetEnvironmentVariable(name) ==
    /\ ge.pc = "idle"
    /\ ge' = [pc |-> "done", name |-> name, out |-> Returns(EnvGet(env, name))]
    /\ UNCHANGED <<procs, sent, kp, kn, ex, child, files, wf, env, se, pattr, lp,
                   rf, lf, lastSet, expect>>

\* The server runs its tools as tasks of one event loop, and a task runs
\* until it awaits.  kill_process has no await between its first line and
\* its return (proc.wait(timeout=5) is a blocking call), so while it runs
\* the loop runs no other task.
LoopBusy == kp.pc \notin {"idle", "done"}

\* A get_environment_variable request has arrived: its task is scheduled.
GetEnvSubmit(name) ==
    /\ ge.pc = "idle"
    /\ ge' = [GeIdle EXCEPT !.pc = "pending", !.name = name]
    /\ UNCHANGED <<procs, sent, kp, kn, ex, child, files, wf, env, se, pattr, lp,
                   rf, lf, lastSet, expect>>

\* The event loop runs the scheduled task, to its end.
GetEnvRun ==
    /\ ge.pc = "pending"
    /\ ~LoopBusy
    /\ ge' = [ge EXCEPT !.pc = "done", !.out = Returns(EnvGet(env, ge.name))]
    /\ UNCHANGED <<procs, sent, kp, kn, ex, child, files, wf, env, se, pattr, lp,
                   rf, lf, lastSet, expect>>

GetEnvReturn ==
    /\ ge.pc = "done"
    /\ ge' = GeIdle
    /\ UNCHANGED <<procs, sent, kp, kn, ex, child, files, wf, env, se, pattr, lp,
                   rf, lf, lastSet, expect>>

----------------------------------------------------------------------------
(* read_file(filepath, encoding) *)

FileExists(path) == DirExists(path) /\ files[path].kind # "absent"

\* The bytes are text in the encoding (strict error handling).
Decodable(data, encoding) ==
    IF encoding = "ascii" THEN \A i \in 1..Len(data) : data[i] < 128
    ELSE WellFormed(data)

\* The file is opened in text mode with the default newline=None: on
\* reading, "\r\n" and a lone "\r" are both translated into "\n".
RECURSIVE UniversalNewlines(_)
UniversalNewlines(text) ==
    IF text = <<>> THEN <<>>
    ELSE IF text[1] = Chr(13)
         THEN IF Len(text) >= 2 /\ text[2] = Chr(10)
              THEN <<Chr(10)>> \o UniversalNewlines(Tail(Tail(text)))
              ELSE <<Chr(10)>> \o UniversalNewlines(Tail(text))
    ELSE <<text[1]>> \o UniversalNewlines(Tail(text))

\* The exception the open and the read raise, "" when there is none.  The
\* file is opened before the text layer looks the encoding up.
ReadFailure(path, encoding) ==
    IF ~FileExists(path) THEN "FileNotFoundError"
    ELSE IF encoding = "bogus" THEN "LookupError"
    ELSE IF ~Decodable(files[path].data, encoding) THEN "UnicodeDecodeError"
    ELSE ""

\* await f.read()
ReadText(path) == UniversalNewlines(utf8_decode(files[path].data))

RfIdle == [pc |-> "idle", filepath |-> "f", encoding |-> "utf-8", out |-> Raises("")]

\* The file is opened, read and closed; nothing is written.
ReadFile(path, encoding) ==
    /\ rf.pc = "idle"
    /\ LET exc == ReadFailure(path, encoding) IN
       rf' = [pc |-> "done", filepath |-> path, encoding |-> encoding,
              out |-> IF exc # "" THEN Raises(exc) ELSE Returns(ReadText(path))]
    /\ UNCHANGED <<procs, sent, kp, kn, ex, child, files, wf, env, se, pattr, lp,
                   ge, lf, lastSet, expect>>

ReadReturn ==
    /\ rf.pc = "done"
    /\ rf' = RfIdle
    /\ UNCHANGED <<procs, sent, kp, kn, ex, child, files, wf, env, se, pattr, lp,
                   ge, lf, lastSet, expect>>

----------------------------------------------------------------------------
(* list_files(directory, include_hidden, recursive) *)

\* "." is the directory that holds "f", the hidden file ".h" and the hidden
\* directory ".g" with the file "x" in it; "d" does not exist; "f" is a
\* file when it exists.
Dirs == {".", "d", "f"}

PathExists(directory) ==
    directory = "." \/ (directory = "f" /\ FileExists("f"))

IsDir(directory) == directory = "."

\* What lies under ".", each entry as the sequence of the names on its
\* path.
DirTree ==
    { <<".h">>, <<".g">>, <<".g", "x">> }
        \cup (IF FileExists("f") THEN { <<"f">> } ELSE {})

\* path.iterdir(): the entries of the directory itself.
DirEntries == { item \in DirTree : Len(item) = 1 }

\* path.rglob("*"): the entries at any depth, those under a hidden
\* directory included.
RglobEntries == DirTree

\* item.name
ItemName(item) == item[Len(item)]

\* name.startswith('.')
IsHidden(name) == name \in {".h", ".g"}

\* A variant without the check that the path exists.
ListFilesFailure_NoExistsCheck(directory) ==
    IF ~IsDir(directory) THEN "NotADirectoryError"
    ELSE ""

\* The exception the checks ahead of the listing raise, "" when they pass.
ListFilesFailure(directory) ==
    IF ~PathExists(directory) THEN "FileNotFoundError"
    ELSE IF ~IsDir(directory) THEN "NotADirectoryError"
    ELSE ""

LfIdle ==
    [pc |-> "idle", directory |-> ".", include_hidden |-> FALSE,
     recursive |-> FALSE, out |-> Raises("")]

\* The listing reads the directory and writes nothing.
ListFiles(directory, include_hidden, recursive) ==
    /\ lf.pc = "idle"
    /\ LET exc == ListFilesFailure(directory)
           items == IF recursive THEN RglobEntries ELSE DirEntries
           listed == { item \in items :
                          include_hidden \/ ~IsHidden(ItemName(item)) }
       IN  lf' = [pc |-> "done", directory |-> directory,
                  include_hidden |-> include_hidden, recursive |-> recursive,
                  out |-> IF exc # "" THEN Raises(exc) ELSE Returns(listed)]
    /\ UNCHANGED <<procs, sent, kp, kn, ex, child, files, wf, env, se, pattr, lp,
                   ge, rf, lastSet, expect>>

ListFilesReturn ==
    /\ lf.pc = "done"
    /\ lf' = LfIdle
    /\ UNCHANGED <<procs, sent, kp, kn, ex, child, files, wf, env, se, pattr, lp,
                   ge, rf, lastSet, expect>>

----------------------------------------------------------------------------
(* list_processes(filter_name, filter_user, include_details) *)

\* User names are sequences of one-character tokens, like process names.
UserNames == { <<"u">>, <<"v">> }

\* The reads of the include_details block, in the order the code makes them.
DetailReads ==
    <<"cpu_percent", "memory_info", "memory_percent", "cmdline", "exe", "cwd",
      "num_threads">>

DetailFields == { DetailReads[i] : i \in 1..Len(DetailReads) }

\* The attributes of a process nobody restricts.
NoAttr == [username |-> Some(<<"u">>), ctimeOk |-> TRUE, denied |-> {}]

NoAttrs == [p \in PIDs |-> NoAttr]

\* proc.info as psutil.process_iter(attrs) fills it: an attribute the OS
\* denies access to is None (ad_value), the others are read.
Pinfo(p) ==
    [pid |-> p,
     name |-> IF procs[p].nameOk THEN Some(procs[p].name) ELSE None,
     username |-> pattr[p].username,
     create_time |-> IF pattr[p].ctimeOk THEN Some("t") ELSE None]

\* a in b, for strings.
IsSubstring(a, b) ==
    \E i \in 0..(Len(b) - Len(a)) : SubSeq(b, i + 1, i + Len(a)) = a

\* The record of one process; filled is the set of detail reads whose fields
\* were assigned, the other detail fields keeping their defaults.
ProcessInfo(pid, name, username, filled) ==
    [pid |-> pid, name |-> name, username |-> username, filled |-> filled]

\* The detail reads made before the first one that raises.  The try block
\* holds all the reads, so the first AccessDenied ends the block.
ReadBeforeFailure(p) ==
    LET bad == { i \in 1..Len(DetailReads) : DetailReads[i] \in pattr[p].denied }
        n == IF bad = {} THEN Len(DetailReads)
             ELSE (CHOOSE i \in bad : \A j \in bad : i <= j) - 1
    IN  { DetailReads[i] : i \in 1..n }

LpIdle ==
    [pc |-> "idle", filter_name |-> None, filter_user |-> None,
     include_details |-> FALSE, next |-> 1,
     process_info |-> ProcessInfo(0, None, <<>>, {}), processes |-> <<>>,
     out |-> Raises("")]

ListCall(filter_name, filter_user, include_details) ==
    /\ lp.pc = "idle"
    /\ lp' = [LpIdle EXCEPT !.pc = "iter", !.filter_name = filter_name,
                            !.filter_user = filter_user,
                            !.include_details = include_details]
    /\ UNCHANGED <<procs, sent, kp, kn, ex, child, files, wf, env, se, pattr, ge,
                   rf, lf, lastSet, expect>>

\* One round of the loop up to the details: process_iter skips a process
\* that has exited, the filters, the basic record.
ListNext ==
    /\ lp.pc = "iter"
    /\ lp.next <= MaxPid
    /\ LET p == lp.next
           pinfo == Pinfo(p)
           skip == [lp EXCEPT !.next = @ + 1]
           process_info ==
               ProcessInfo(p, pinfo.name,
                           IF pinfo.username = None \/ pinfo.username[1] = <<>>
                           THEN <<"Unknown">> ELSE pinfo.username[1],
                           {})
       IN  IF ~procs[p].alive
           THEN lp' = skip
           ELSE IF Truthy(lp.filter_name) /\ pinfo.name = None
           THEN lp' = [lp EXCEPT !.pc = "done", !.out = Raises("AttributeError")]
           ELSE IF /\ Truthy(lp.filter_name)
                   /\ ~IsSubstring(Lower(lp.filter_name[1]), Lower(pinfo.name[1]))
           THEN lp' = skip
           ELSE IF Truthy(lp.filter_user) /\ pinfo.username # lp.filter_user
           THEN lp' = skip
           ELSE IF pinfo.create_time = None
           THEN lp' = [lp EXCEPT !.pc = "done", !.out = Raises("TypeError")]
           ELSE IF lp.include_details
           THEN lp' = [lp EXCEPT !.pc = "details", !.process_info = process_info]
           ELSE lp' = [lp EXCEPT !.next = @ + 1,
                                 !.processes = Append(@, process_info)]
    /\ UNCHANGED <<procs, sent, kp, kn, ex, child, files, wf, env, se, pattr, ge,
                   rf, lf, lastSet, expect>>

\* The include_details block and the append.  The reads are taken together:
\* a process that has exited fails the first of them.
ListDetails ==
    /\ lp.pc = "details"
    /\ LET p == lp.next
           filled == IF procs[p].alive THEN ReadBeforeFailure(p) ELSE {}
       IN  lp' = [lp EXCEPT !.pc = "iter", !.next = @ + 1,
                            !.processes =
                                Append(@, [lp.process_info EXCEPT
                                               !.filled = filled])]
    /\ UNCHANGED <<procs, sent, kp, kn, ex, child, files, wf, env, se, pattr, ge,
                   rf, lf, lastSet, expect>>

ListFinish ==
    /\ lp.pc = "iter"
    /\ lp.next > MaxPid
    /\ lp' = [lp EXCEPT !.pc = "done", !.out = Returns(lp.processes)]
    /\ UNCHANGED <<procs, sent, kp, kn, ex, child, files, wf, env, se, pattr, ge,
                   rf, lf, lastSet, expect>>

ListReturn ==
    /\ lp.pc = "done"
    /\ lp' = LpIdle
    /\ UNCHANGED <<procs, sent, kp, kn, ex, child, files, wf, env, se, pattr, ge,
                   rf, lf, lastSet, expect>>

----------------------------------------------------------------------------
(* Specifications *)

NoFiles == [p \in Paths |-> NoFile]

\* Nothing is known of what the files hold.
NoExpect == [p \in Paths |-> None]

\* No call is in progress.
AllIdle ==
    /\ kp.pc = "idle" /\ kn.pc = "idle" /\ ex.pc = "idle"
    /\ wf.pc = "idle" /\ se.pc = "idle"
    /\ lp.pc = "idle" /\ ge.pc = "idle" /\ rf.pc = "idle" /\ lf.pc = "idle"

CallsIdle ==
    /\ sent = {}
    /\ kp = KpIdle
    /\ kn = KnIdle
    /\ ex = ExIdle
    /\ child = NoChild
    /\ wf = WfIdle
    /\ se = SeIdle
    /\ lp = LpIdle
    /\ ge = GeIdle
    /\ rf = RfIdle
    /\ lf = LfIdle
    /\ expect = NoExpect

\* The process terminator, single pid, on any process table.
InitKill ==
    /\ procs \in ProcTables
    /\ files = NoFiles
    /\ env = NoEnv
    /\ lastSet = NoEnv
    /\ pattr = NoAttrs
    /\ CallsIdle

KillSteps ==
    \/ KillLookup
    \/ KillName
    \/ KillSignal
    \/ KillWaitReturns
    \/ KillWaitTimeout
    \/ KillEscalate
    \/ KillReturn

OSSteps ==
    \/ \E p \in PIDs : OSDeliver(p)
    \/ \E p \in PIDs : OSExit(p)

NextKill ==
    \/ \E pid \in PidArgs, force \in BOOLEAN : KillCall(pid, force)
    \/ KillSteps
    \/ OSSteps

SpecKill == InitKill /\ [][NextKill]_vars

\* The process terminator, by name.
KillAllSteps ==
    \/ KillAllNext
    \/ KillAllSignal
    \/ KillAllFinish
    \/ KillAllReturn

NextKillAll ==
    \/ \E name \in NameArgs, force \in BOOLEAN : KillAllCall(name, force)
    \/ KillAllSteps
    \/ OSSteps

SpecKillAll == InitKill /\ [][NextKillAll]_vars

\* The command runner.
InitExec ==
    /\ procs = NoProcs
    /\ files = NoFiles
    /\ env = NoEnv
    /\ lastSet = NoEnv
    /\ pattr = NoAttrs
    /\ CallsIdle

ExecSteps ==
    \/ ExecSpawn
    \/ \E b \in Bytes : ChildWriteOut(b)
    \/ \E b \in Bytes : ChildWriteErr(b)
    \/ ChildFork
    \/ DescendantExit
    \/ \E rc \in ExitCodes \cup {126, 127} : ChildExit(rc)
    \/ ExecCommunicate
    \/ ExecTimeout
    \/ ExecReturn

NextExec ==
    \/ \E command \in Commands, cwdOk \in BOOLEAN, timeout \in Timeouts,
          shell \in BOOLEAN : ExecCall(command, cwdOk, timeout, shell)
    \/ ExecSteps

SpecExec == InitExec /\ [][NextExec]_vars

\* The client called for one operation at a time, a call starting when the
\* one before has returned.  The process table, the file system and the
\* environment do not act on one another, so each is varied with the others
\* at rest: the terminator runs on any process table, and the file and
\* environment operations and the command runner on the empty one.
InitClient ==
    /\ procs \in ProcTables
    /\ files \in [Paths -> StartFiles \cup {NoFile}]
    /\ \A p \in Paths : ~DirExists(p) => files[p] = NoFile
    /\ procs # NoProcs => files = NoFiles
    /\ env = NoEnv
    /\ lastSet = NoEnv
    /\ pattr = NoAttrs
    /\ CallsIdle

NextClient ==
    \/ /\ AllIdle
       /\ \E pid \in PidArgs, force \in BOOLEAN : KillCall(pid, force)
    \/ /\ AllIdle
       /\ \E name \in NameArgs, force \in BOOLEAN : KillAllCall(name, force)
    \/ /\ AllIdle /\ procs = NoProcs /\ files = NoFiles /\ env = NoEnv
       /\ \E command \in Commands, cwdOk \in BOOLEAN, timeout \in Timeouts,
             shell \in BOOLEAN : ExecCall(command, cwdOk, timeout, shell)
    \/ /\ AllIdle /\ procs = NoProcs /\ env = NoEnv
       /\ \E path \in Paths, content \in Contents, encoding \in Encodings,
             append \in BOOLEAN : WriteCall(path, content, encoding, append)
    \/ /\ AllIdle /\ procs = NoProcs /\ files = NoFiles
       /\ \E name \in EnvNames, value \in EnvValues :
             SetEnvironmentVariable(name, value)
    \/ KillSteps
    \/ KillAllSteps
    \/ ExecSteps
    \/ WriteOpen
    \/ WriteWrite
    \/ WriteReturn
    \/ SetEnvReturn
    \/ OSSteps

SpecClient == InitClient /\ [][NextClient]_vars

\* The process inspector.  A process is one of a few profiles: readable in
\* full, or with one thing the OS keeps from the caller.
ListProfiles ==
    [name : ProcNames, nameOk : {TRUE}, username : {Some(u) : u \in UserNames},
     ctimeOk : {TRUE}, denied : {{}}]
    \cup
    { [name |-> <<"a">>, nameOk |-> TRUE, username |-> Some(<<"v">>),
       ctimeOk |-> TRUE, denied |-> {"exe"}],
      [name |-> <<"a">>, nameOk |-> TRUE, username |-> Some(<<"v">>),
       ctimeOk |-> TRUE, denied |-> DetailFields],
      [name |-> <<"a">>, nameOk |-> TRUE, username |-> None,
       ctimeOk |-> TRUE, denied |-> {}],
      [name |-> <<"a">>, nameOk |-> FALSE, username |-> Some(<<"u">>),
       ctimeOk |-> TRUE, denied |-> {}],
      [name |-> <<"a">>, nameOk |-> TRUE, username |-> Some(<<"u">>),
       ctimeOk |-> FALSE, denied |-> {}] }

NameFilters == { None, Some(<<>>), Some(<<"A">>), Some(<<"b">>) }

UserFilters == { None, Some(<<>>), Some(<<"u">>) }

\* The profile of a pid that is not in the table.
NoProfile ==
    [name |-> AbsentProc.name, nameOk |-> AbsentProc.nameOk,
     username |-> NoAttr.username, ctimeOk |-> NoAttr.ctimeOk,
     denied |-> NoAttr.denied]

InitList ==
    /\ \E live \in SUBSET PIDs, prof \in [PIDs -> ListProfiles] :
          /\ \A p \in PIDs \ live : prof[p] = NoProfile
          /\ procs = [p \in PIDs |->
                         IF p \in live
                         THEN [AbsentProc EXCEPT !.alive = TRUE,
                                                 !.name = prof[p].name,
                                                 !.nameOk = prof[p].nameOk]
                         ELSE AbsentProc]
          /\ pattr = [p \in PIDs |->
                         [username |-> prof[p].username,
                          ctimeOk |-> prof[p].ctimeOk,
                          denied |-> prof[p].denied]]
    /\ files = NoFiles
    /\ env = NoEnv
    /\ lastSet = NoEnv
    /\ CallsIdle

NextList ==
    \/ \E filter_name \in NameFilters, filter_user \in UserFilters,
          include_details \in BOOLEAN :
            ListCall(filter_name, filter_user, include_details)
    \/ ListNext
    \/ ListDetails
    \/ ListFinish
    \/ ListReturn
    \/ \E p \in PIDs : OSExit(p)

SpecList == InitList /\ [][NextList]_vars

\* The environment operations, called concurrently: a call may start while
\* another has not returned.  The server inherits "P".
InheritedEnv == [NoEnv EXCEPT !["P"] = "x"]

InitEnv ==
    /\ procs = NoProcs
    /\ files = NoFiles
    /\ env = InheritedEnv
    /\ lastSet = InheritedEnv
    /\ pattr = NoAttrs
    /\ CallsIdle

NextEnv ==
    \/ \E name \in EnvNames, value \in EnvValues :
          SetEnvironmentVariable(name, value)
    \/ SetEnvReturn
    \/ \E name \in EnvNames : GetEnvironmentVariable(name)
    \/ GetEnvReturn

SpecEnv == InitEnv /\ [][NextEnv]_vars

\* The server with a kill_process call and a get_environment_variable
\* request submitted concurrently.
NextServer ==
    \/ \E pid \in PidArgs, force \in BOOLEAN : KillCall(pid, force)
    \/ KillSteps
    \/ OSSteps
    \/ \E name \in EnvNames : GetEnvSubmit(name)
    \/ GetEnvRun
    \/ GetEnvReturn

SpecServer == InitKill /\ [][NextServer]_vars

\* The command runner with the environment operations: the environment
\* may be set and read while a command is running.  The children write
\* nothing here.
NextChildEnv ==
    \/ \E command \in Commands, cwdOk \in BOOLEAN, timeout \in Timeouts,
          shell \in BOOLEAN : ExecCall(command, cwdOk, timeout, shell)
    \/ ExecSpawn
    \/ \E rc \in ExitCodes \cup {126, 127} : ChildExit(rc)
    \/ ExecCommunicate
    \/ ExecTimeout
    \/ ExecReturn
    \/ \E value \in EnvValues : SetEnvironmentVariable("V", value)
    \/ SetEnvReturn
    \/ GetEnvironmentVariable("V")
    \/ GetEnvReturn

SpecChildEnv == InitEnv /\ [][NextChildEnv]_vars

\* The file operations, one call at a time, on any starting file.
InitFile ==
    /\ procs = NoProcs
    /\ files \in [Paths -> StartFiles]
    /\ \A p \in Paths : ~DirExists(p) => files[p] = NoFile
    /\ env = NoEnv
    /\ lastSet = NoEnv
    /\ pattr = NoAttrs
    /\ CallsIdle

NextFile ==
    \/ /\ AllIdle
       /\ \E path \in Paths, content \in Contents, encoding \in Encodings,
             append \in BOOLEAN : WriteCall(path, content, encoding, append)
    \/ WriteOpen
    \/ WriteWrite
    \/ WriteReturn
    \/ /\ AllIdle
       /\ \E path \in Paths, encoding \in Encodings : ReadFile(path, encoding)
    \/ ReadReturn
    \/ /\ AllIdle
       /\ \E directory \in Dirs, include_hidden \in BOOLEAN,
             recursive \in BOOLEAN :
               ListFiles(directory, include_hidden, recursive)
    \/ ListFilesReturn

SpecFile == InitFile /\ [][NextFile]_vars

----------------------------------------------------------------------------
(* Properties of kill_process *)

Tokens(text) == { text[i] : i \in 1..Len(text) }

KpDone == kp.pc = "done"

KpResult == kp.out.result

\* C3: kill_process(pid, force=false) whose 5-second wait expired ends with
\* the process absent from the process table when the result is returned,
\* and the result has success=true and a message containing
\* "force killed after timeout".
C3_EscalationLeavesProcessAbsent ==
    (KpDone /\ ~kp.force /\ kp.expired) =>
        /\ ~InTable(kp.pid)
        /\ ~kp.out.raised
        /\ KpResult.success
        /\ "force killed after timeout" \in Tokens(KpResult.stdout)

\* C4: for a pid that is not in the process table, with either value of
\* force, kill_process returns success=false and return_code=1, has sent no
\* signal and has not raised.
C4_AbsentPidNotFound ==
    (KpDone /\ ~kp.found) =>
        /\ ~kp.out.raised
        /\ KpResult.success = FALSE
        /\ KpResult.return_code = 1
        /\ sent = {}

C4_Witness ==
    KpDone /\ ~kp.found /\ kp.pid \in PIDs /\ kp.force /\ ~kp.out.raised

\* C5: when the OS denies access at any step of kill_process (reading the
\* name, the graceful signal, the kill signal, the escalation kill), the call
\* does not raise and returns success=false with return_code=1.
C5_AccessDeniedIsResult ==
    (KpDone /\ kp.denied # "") =>
        /\ ~kp.out.raised
        /\ KpResult.success = FALSE
        /\ KpResult.return_code = 1

C5_Witness ==
    KpDone /\ kp.denied = "escalate" /\ <<kp.pid, "SIGTERM">> \in sent

----------------------------------------------------------------------------
(* Properties of execute_command *)

ExDone == ex.pc = "done"

ExResult == ex.out.result

\* The timeout expired while the child was still running.
ExpiredOnLiveChild == ExDone /\ ex.timedOut /\ ex.aliveAtExpiry

\* C1: when the timeout of execute_command expires before the child has
\* finished, neither the child nor a descendant of it is running once the
\* result has been returned.
C1_TimedOutChildStopped ==
    ExpiredOnLiveChild => (child.state # "running" /\ ~child.desc)

\* C2: if the child has not exited when the timeout expires, execute_command
\* returns, without raising, return_code=124, success=false, an empty stdout
\* (whatever the child had written) and a non-empty stderr naming the timeout.
C2_TimeoutResult ==
    ExpiredOnLiveChild =>
        /\ ~ex.out.raised
        /\ ExResult.return_code = 124
        /\ ExResult.success = FALSE
        /\ ExResult.stdout = <<>>
        /\ ExResult.stderr # <<>>
        /\ ex.timeout \in Tokens(ExResult.stderr)

C2_Witness ==
    ExpiredOnLiveChild /\ child.out # <<>> /\ ex.timeout = "0"

\* The command names a binary that is missing or may not be executed.
CannotRun == BinaryStatus(ex.command) \in {"missing", "denied"}

C8_MissingBinaryFails ==
    (ExDone /\ BinaryStatus(ex.command) = "missing") =>
        /\ ~ex.out.raised
        /\ ExResult.success = FALSE
        /\ ExResult.return_code # 0
        /\ ExResult.stderr # <<>>

C8_Witness ==
    /\ ExDone /\ BinaryStatus(ex.command) = "missing" /\ ex.shell
    /\ ex.spawned /\ child.state = "exited" /\ ExResult.return_code = child.rc

\* The child exited with status 0 before any timeout expired.
ExitedZeroInTime ==
    /\ ExDone /\ ex.spawned
    /\ child.state = "exited" /\ child.rc = 0
    /\ ex.timedOut => ~ex.aliveAtExpiry

\* C9 as stated: when the child exits with status 0 before any timeout, the
\* result has success=true and return_code=0, and stdout and stderr are
\* exactly what the child wrote to its standard output and standard error.
C9_ExactOutput ==
    ExitedZeroInTime =>
        /\ ExResult.success
        /\ ExResult.return_code = 0
        /\ Utf8Bytes(ExResult.stdout) = child.out
        /\ Utf8Bytes(ExResult.stderr) = child.err

\* C9 (amended): when the child exits with status 0 and communicate() is
\* complete (both pipes closed) before any timeout, the result has
\* success=true and return_code=0; stdout and stderr are what the child wrote
\* wherever that is well-formed UTF-8, and otherwise hold U+FFFD in place of
\* the bytes that are not.
C9_DecodedOutput ==
    (ExitedZeroInTime /\ ~ex.timedOut) =>
        /\ ExResult.success
        /\ ExResult.return_code = 0
        /\ WellFormed(child.out) => Utf8Bytes(ExResult.stdout) = child.out
        /\ WellFormed(child.err) => Utf8Bytes(ExResult.stderr) = child.err
        /\ ~WellFormed(child.out) => Chr(Replacement) \in Tokens(ExResult.stdout)
        /\ ~WellFormed(child.err) => Chr(Replacement) \in Tokens(ExResult.stderr)

C9_Witness ==
    /\ ExitedZeroInTime /\ ~ex.timedOut
    /\ child.out = <<195, 169>> /\ child.err = <<169>>

----------------------------------------------------------------------------
(* Properties of kill_processes_by_name *)

KnDone == kn.pc = "done"

KnResult == kn.out.result

\* The pids the call in progress has delivered a signal to.
SignalledPids == { s[1] : s \in sent }

\* The pids listed in stdout after its heading.
ListedPids(stdout) == { stdout[i] : i \in 2..Len(stdout) }

\* C10: kill_processes_by_name returns success=true, with return_code=0, if
\* and only if it killed at least one process (its signal was delivered to
\* the process), and stdout then lists exactly the pids of those processes.
C10_SuccessIffKilled ==
    (KnDone /\ ~kn.out.raised) =>
        /\ KnResult.success <=> (SignalledPids # {})
        /\ KnResult.success <=> (KnResult.return_code = 0)
        /\ KnResult.return_code \in {0, 1}
        /\ KnResult.success =>
              /\ ListedPids(KnResult.stdout)
                     = { ToString(p) : p \in SignalledPids }
              /\ Len(KnResult.stdout) = 1 + Cardinality(SignalledPids)

C10_Witness ==
    /\ KnDone /\ ~kn.out.raised /\ KnResult.success
    /\ Cardinality(SignalledPids) = 1 /\ kn.errors # <<>>

----------------------------------------------------------------------------
(* Properties of the result records *)

\* The results the five operations have returned and the caller has not yet
\* taken; a timeout result of execute_command is marked.
ReturnedResults ==
    { [result |-> c.out.result, synthetic |-> FALSE] :
          c \in { c \in {kp, kn, wf, se} : c.pc = "done" /\ ~c.out.raised } }
    \cup (IF ExDone /\ ~ex.out.raised
          THEN { [result |-> ExResult, synthetic |-> ex.timedOut] }
          ELSE {})

\* C6: every CommandResult returned by execute_command, kill_process,
\* kill_processes_by_name, write_file and set_environment_variable has
\* success = (return_code = 0); the one result allowed to differ is the
\* timeout result, whose return_code is 124.
C6_SuccessIffZero ==
    \A r \in ReturnedResults :
        \/ r.result.success <=> (r.result.return_code = 0)
        \/ r.synthetic /\ r.result.return_code = 124

C6_Witness ==
    /\ ExDone /\ ~ex.timedOut /\ ex.spawned
    /\ child.rc = -9 /\ ExResult.return_code = -9 /\ ~ExResult.success

\* The per-process errors the call has met.
PerProcessErrors == Tokens(kn.errors)

\* C11: every per-process error kill_processes_by_name met while signalling
\* a matching process is in the stderr of the returned result, whatever the
\* outcome, the one with no process killed included.
C11_ErrorsReported ==
    (KnDone /\ ~kn.out.raised) =>
        PerProcessErrors \subseteq Tokens(KnResult.stderr)

\* The name of live process p equals the name argument, letter case ignored.
NameMatches(p) ==
    procs[p].alive /\ procs[p].nameOk /\ Lower(procs[p].name) = Lower(kn.name)

\* C12: kill_processes_by_name signals a process only if its name equals
\* the given name ignoring letter case (a signalled process is still in the
\* table right after the signal, where its name is compared), and every
\* process whose name matches has been signalled or recorded as an error
\* when the call is over.
C12_ExactlyTheMatching ==
    /\ kn.pc # "idle" =>
          \A p \in SignalledPids : procs[p].alive => NameMatches(p)
    /\ KnDone =>
          \A p \in PIDs : NameMatches(p) =>
              \/ p \in SignalledPids
              \/ \E exc \in {"AccessDenied", "NoSuchProcess"} :
                    KillAllErrorLine(p, exc) \in PerProcessErrors

----------------------------------------------------------------------------
(* Properties of list_processes *)

LpDone == lp.pc = "done"

\* The records of a call that has returned its list.
LpRecords == { lp.out.result[i] : i \in 1..Len(lp.out.result) }

\* C13: with include_details, the detail fields are independently
\* best-effort: in every returned record of a process that is still running,
\* every detail field the OS lets the caller read is filled, whatever other
\* field could not be read.
C13_DetailsIndependent ==
    (LpDone /\ ~lp.out.raised /\ lp.include_details) =>
        \A r \in LpRecords :
            procs[r.pid].alive =>
                (DetailFields \ pattr[r.pid].denied) \subseteq r.filled

\* C14: list_processes does not raise, whatever attribute of a process the
\* OS denies access to, whichever process exits during the enumeration, and
\* whatever filters are given.
C14_NeverRaises == LpDone => ~lp.out.raised

\* The process passes the two filters as they are given: a filter that is
\* not None is applied.
PassesFilters(p) ==
    /\ lp.filter_name = None
          \/ IsSubstring(Lower(lp.filter_name[1]), Lower(procs[p].name))
    /\ lp.filter_user = None \/ pattr[p].username = lp.filter_user

\* C15: the returned list holds exactly the processes that pass both
\* filters: a running process whose name and user name can be read is in the
\* list if and only if it passes the name filter (unset, or a
\* case-insensitive substring of the name) and the user filter (unset, or
\* equal to the user name).
C15_ExactlyThePassing ==
    (LpDone /\ ~lp.out.raised) =>
        \A p \in PIDs :
            (procs[p].alive /\ procs[p].nameOk /\ pattr[p].username # None) =>
                ((\E r \in LpRecords : r.pid = p) <=> PassesFilters(p))

----------------------------------------------------------------------------
(* Properties of the environment operations *)

GeDone == ge.pc = "done"

\* C16 as stated: calls share no mutable state, so get_environment_variable
\* returns what the environment the server started with gives, whatever
\* set_environment_variable calls ran before it.
C16_GetUnaffectedBySet ==
    GeDone => ge.out.result = EnvGet(InheritedEnv, ge.name)

\* C16 amended: the calls share the environment of the server, and nothing
\* else acts on it: the value of a name changes only in a step of
\* set_environment_variable on that name that returns success, to the value
\* given; and get_environment_variable returns the value the environment
\* holds for the name when it runs.
C16_OnlySetOfSameName ==
    [][ /\ \A n \in EnvNames :
              env'[n] # env[n] =>
                  /\ se.pc = "idle" /\ se'.pc = "done"
                  /\ se'.name = n
                  /\ se'.out.result.success
                  /\ env'[n] = se'.value
        /\ (ge.pc = "idle" /\ ge'.pc = "done") =>
              /\ ~ge'.out.raised
              /\ ge'.out.result = EnvGet(env, ge'.name)
              /\ env' = env ]_vars

\* A get of "P" returns the inherited value after "V" was set.
C16_Witness ==
    GeDone /\ ge.name = "P" /\ ge.out.result = Some("x") /\ env["V"] = "y"

\* C20: environment round trip.  get_environment_variable(n) returns the
\* value of the last set_environment_variable(n, v) that returned success
\* (or the value the server inherited for n, when there was none), and None
\* for a name that was never given a value.
C20_GetReturnsLastSet ==
    [][ (ge.pc = "idle" /\ ge'.pc = "done") =>
            ge'.out.result = IF lastSet[ge'.name] = Unset THEN None
                             ELSE Some(lastSet[ge'.name]) ]_vars

\* A get returns the second of two values set for "V".
C20_Witness ==
    /\ GeDone /\ ge.name = "V" /\ ge.out.result = Some("y")
    /\ se.pc = "done" /\ se.name = "V" /\ se.value = "x" /\ lastSet["V"] = "x"

----------------------------------------------------------------------------
(* Properties of kill_process on an absent pid *)

\* C17: kill_process on a pid that is not in the process table is
\* idempotent: the lookup ends the call with a result that the arguments
\* alone determine (the kill command of the pid, return_code=1, empty
\* stdout, "Process with PID <pid> not found" in stderr, success=false), so
\* a second call gives the same result, and the step changes nothing but the
\* call's own record.
C17_AbsentPidIdempotent ==
    [][ (kp.pc = "lookup" /\ kp'.pc # "lookup" /\ kp.pid >= 0 /\ ~InTable(kp.pid)) =>
            /\ kp'.pc = "done"
            /\ ~kp'.out.raised
            /\ kp'.out.result =
                  [command |-> <<"kill", IF kp.force THEN "--force" ELSE "",
                                 ToString(kp.pid)>>,
                   return_code |-> 1,
                   stdout |-> <<>>,
                   stderr |-> <<"Process with PID", ToString(kp.pid), "not found">>,
                   success |-> FALSE]
            /\ UNCHANGED <<procs, sent, kn, ex, child, files, wf, env, se, pattr,
                           lp, ge, rf, lf, lastSet, expect>> ]_vars

C17_Witness ==
    /\ KpDone /\ ~kp.found /\ kp.pid = 0 /\ ~kp.force
    /\ KpResult.stderr = <<"Process with PID", "0", "not found">>

----------------------------------------------------------------------------
(* Properties of the file operations *)

RfDone == rf.pc = "done"

\* The text the successful writes left in the file read, when it is known
\* and the file is read as UTF-8.
Known == RfDone /\ rf.encoding = "utf-8" /\ expect[rf.filepath] # None

\* C18 as stated: after a successful write_file(path, c), read_file(path)
\* returns exactly c whatever the file held before, and c followed by d
\* after a further successful append of d.
C18_RoundTrip ==
    Known => (~rf.out.raised /\ rf.out.result = expect[rf.filepath][1])

\* C18 amended: the round trip holds for texts without a carriage return.
C18_RoundTripNoCR ==
    (Known /\ Chr(13) \notin Tokens(expect[rf.filepath][1])) =>
        (~rf.out.raised /\ rf.out.result = expect[rf.filepath][1])

\* A file read back after a write and an append.
C18_Witness ==
    /\ Known /\ ~rf.out.raised
    /\ rf.out.result = <<Chr(65), Chr(233)>>
    /\ expect[rf.filepath] = Some(<<Chr(65), Chr(233)>>)

\* C19: list_files on a directory that does not exist and read_file on a
\* file that does not exist raise FileNotFoundError.
C19_MissingPathRaises ==
    /\ (lf.pc = "done" /\ ~PathExists(lf.directory)) =>
          (lf.out.raised /\ lf.out.exc = "FileNotFoundError")
    /\ (RfDone /\ ~FileExists(rf.filepath)) =>
          (rf.out.raised /\ rf.out.exc = "FileNotFoundError")

C19_Witness ==
    lf.pc = "done" /\ lf.directory = "d" /\ lf.out.exc = "FileNotFoundError"

----------------------------------------------------------------------------
(* Signal ordering *)

\* C21: signal ordering in kill_process.  Every signal goes to the pid of
\* the call.  With force=true the only signal is one SIGKILL, sent by the
\* first attempt.  With force=false the first signal is SIGTERM, and SIGKILL
\* is sent only by the escalation, after SIGTERM, after the wait has expired
\* (which it does only with the process still in the table), and the
\* escalation ends the call, so SIGKILL is sent at most once.
C21_SignalOrder ==
    [][ /\ \A s \in sent' \ sent :
              /\ s[1] = kp.pid
              /\ kp.force =>
                    s[2] = "SIGKILL" /\ kp.pc = "signal" /\ sent = {}
              /\ (~kp.force /\ s[2] = "SIGTERM") =>
                    kp.pc = "signal" /\ sent = {}
              /\ (~kp.force /\ s[2] = "SIGKILL") =>
                    /\ kp.pc = "escalate" /\ kp.expired
                    /\ sent = {<<kp.pid, "SIGTERM">>}
                    /\ kp'.pc = "done"
        /\ (~kp.expired /\ kp'.expired) =>
              (kp.pc = "wait" /\ InTable(kp.pid)) ]_vars

\* A graceful call that escalated.
C21_Witness ==
    /\ KpDone /\ ~kp.force /\ kp.expired
    /\ sent = {<<kp.pid, "SIGTERM">>, <<kp.pid, "SIGKILL">>}

\* The process of the loop round in progress matches the name argument.
RoundMatches ==
    /\ InTable(kn.next)
    /\ procs[kn.next].nameOk
    /\ Lower(procs[kn.next].name) = Lower(kn.name)

\* C22: kill_processes_by_name sends a matching process one signal of the
\* requested kind and goes on.  Every signal goes to the matching process of
\* the round in progress, is SIGTERM if force=false and SIGKILL if
\* force=true, is the first the call sends to that pid, and puts the pid in
\* killed_pids; the attempt, whatever its outcome, is followed at once by
\* the next round, without a wait for the process to exit; a call with
\* force=false sends no SIGKILL to any process, so a process that ignores
\* SIGTERM stays in the table although its pid is reported as killed.
C22_OneSignalNoEscalation ==
    /\ [][ /\ \A s \in sent' \ sent :
                 /\ kn.pc = "signal" /\ s[1] = kn.next /\ RoundMatches
                 /\ s[2] = (IF kn.force THEN "SIGKILL" ELSE "SIGTERM")
                 /\ s[1] \notin SignalledPids
                 /\ sent' = sent \cup {s}
                 /\ kn'.killed_pids = Append(kn.killed_pids, s[1])
           /\ (kn.pc = "signal" /\ kn'.pc # "signal") =>
                 (kn'.pc = "iter" /\ kn'.next = kn.next + 1) ]_vars
    /\ []((kn.pc # "idle" /\ ~kn.force) =>
             \A p \in PIDs : <<p, "SIGKILL">> \notin sent)

\* A process that ignores SIGTERM is reported as killed and is still there.
C22_Witness ==
    /\ KnDone /\ ~kn.out.raised /\ KnResult.success /\ ~kn.force
    /\ \E p \in SignalledPids :
          /\ procs[p].alive /\ procs[p].ignoresTerm /\ procs[p].pendingTerm
          /\ ToString(p) \in ListedPids(KnResult.stdout)

----------------------------------------------------------------------------
(* Concurrent calls *)

\* C23: the bounded wait of kill_process is a suspension point: while a
\* kill_process call is waiting for its target to exit, a call submitted to
\* the server can run.
C23_WaitIsSuspensionPoint ==
    (kp.pc = "wait" /\ ge.pc = "pending") => ENABLED GetEnvRun

\* C24: a value set with set_environment_variable lives in the server
\* process only.  A later get_environment_variable returns it; a child that
\* execute_command spawns starts with the environment as it is at the
\* spawn, so with the values set before; the environment of a child already
\* spawned does not change, whatever is set afterwards; and the call writes
\* nothing but the environment of the server, no file in particular.
C24_EnvScope ==
    [][ /\ (ge.pc = "idle" /\ ge'.pc = "done") =>
              ge'.out.result = IF lastSet[ge'.name] = Unset THEN None
                               ELSE Some(lastSet[ge'.name])
        /\ (child.state = "none" /\ child'.state # "none") =>
              child'.env = lastSet
        /\ (child.state # "none" /\ child'.state # "none") =>
              child'.env = child.env
        /\ (se.pc = "idle" /\ se'.pc = "done") =>
              UNCHANGED <<procs, files, child, expect>> ]_vars

\* A child spawned between two sets of "V" has the first value.
C24_Witness ==
    /\ child.state = "running" /\ child.env["V"] = "x"
    /\ env["V"] = "y" /\ se.pc = "done" /\ se.out.result.success

----------------------------------------------------------------------------
(* Outcomes of kill_process *)

\* C25: whenever kill_process returns success=true, with either value of
\* force, the target process has exited.
C25_SuccessMeansExited ==
    (KpDone /\ ~kp.out.raised /\ KpResult.success) => ~InTable(kp.pid)

\* The call has delivered a signal to its target.
KpSignalled == \E s \in sent : s[1] = kp.pid

\* C26: a call that found the process and delivered a signal to it does
\* not return the not-found result (success=false, return_code=1, "not
\* found"), at whatever moment the process exits afterwards.
C26_SignalledNeverNotFound ==
    (KpDone /\ ~kp.out.raised /\ KpSignalled) =>
        ~(/\ ~KpResult.success
          /\ KpResult.return_code = 1
          /\ "not found" \in Tokens(KpResult.stderr))

----------------------------------------------------------------------------
(* write_file on error *)

\* C27: whenever write_file returns success=false, the target file holds
\* what it held before the call, in overwrite and in append mode.
C27_FailedWriteChangesNothing ==
    (wf.pc = "done" /\ ~wf.out.raised /\ ~wf.out.result.success) =>
        files[wf.filepath].data = wf.before.data

----------------------------------------------------------------------------
(* The timeout code of execute_command *)

\* C28 as stated: a result of execute_command has return_code=124 only if a
\* timeout was given and it expired.
C28_Code124OnlyOnTimeout ==
    (ExDone /\ ~ex.out.raised /\ ExResult.return_code = 124) =>
        (ex.timeout # "None" /\ ex.timedOut)

\* C28 amended: return_code=124 comes from the timeout handler or is the
\* exit status of the child itself.  The timeout handler runs only if a
\* timeout was given (never with timeout=None) and it expired before
\* communicate() was complete, and its result has empty stdout and the
\* timeout message; a return_code of 124 without an expired timeout is the
\* status the child exited with, in a result built from the child's output.
C28_Code124Origin ==
    /\ (ExDone /\ ex.timedOut) =>
          /\ ex.timeout # "None"
          /\ ExResult = ExecTimedOut(ex.command, ex.timeout, <<>>)
          /\ ExResult.return_code = 124
    /\ (ExDone /\ ~ex.out.raised /\ ExResult.return_code = 124 /\ ~ex.timedOut) =>
          /\ child.state = "exited" /\ child.rc = 124
          /\ ExResult.stdout = utf8_decode(child.out)
          /\ "Command timed out after" \notin Tokens(ExResult.stderr)
    /\ (ex.pc = "communicate" /\ CommunicateDone) => ~ENABLED ExecTimeout
    /\ (ex.pc = "communicate" /\ ex.timeout = "None") => ~ENABLED ExecTimeout

\* A child exits with status 124 of its own; no timeout was given.
C28_Witness ==
    /\ ExDone /\ ~ex.out.raised /\ ExResult.return_code = 124
    /\ ex.timeout = "None" /\ ~ex.timedOut /\ child.rc = 124

----------------------------------------------------------------------------
(* Hidden entries of list_files *)

\* C29: with include_hidden=false list_files returns no hidden entry, in
\* either mode: no returned entry has a name that starts with '.', and none
\* lies inside a directory whose name starts with '.'.
C29_NoHiddenEntry ==
    (lf.pc = "done" /\ ~lf.out.raised /\ ~lf.include_hidden) =>
        \A item \in lf.out.result :
            \A i \in 1..Len(item) : ~IsHidden(item[i])

====
